---- MODULE Spec2Model ----
(***************************************************************************)
(* Model of the Night UI of the img.ly SDK (src/js/ui/night/ui.js): the    *)
(* composition of the kit's operationsStack in the fixed operation order,  *)
(* the per-operation isIdentity flag, the update handler that requests    *)
(* re-renders unless the session is paused, and the overview controls; and *)
(* of the orchid and fixie filters, which render a fixed PrimitivesStack.  *)
(***************************************************************************)
EXTENDS Integers, Sequences, FiniteSets, TLC

\* ------------------------------------------------------------------ bounds
\* longest list of operations the caller enables (composition runs)
MaxSelected == 3
\* most run() calls on one kit (composition runs)
MaxRuns == 2
\* longest list of operations the caller enables (editing sessions)
MaxActive == 2
\* most run() calls on one kit (editing sessions)
MaxSessionRuns == 1
\* editing sessions enable operations among the first MaxIdentifiers of the
\* order list
MaxIdentifiers == 2
\* most render requests the canvas accepts in one session
MaxRequests == 2
\* most render() calls on one filter instance
MaxFilterRenders == 2
\* most "back" listeners pending on one control
MaxBackListeners == 2

\* ------------------------------------------------------- program constants
\* ui.js:25-42, this._preferredOperationOrder
preferredOperationOrder ==
  << "crop-rotation", "flip",
     "filters", "contrast", "brightness", "saturation",
     "radial-blur", "tilt-shift", "frames", "stickers", "text" >>

\* ui.js:26, 30, 36: the three groups the order list is commented with
GeometryOperations == {"crop-rotation", "flip"}
ColorOperations == {"filters", "contrast", "brightness", "saturation"}
PostProcessingOperations ==
  {"radial-blur", "tilt-shift", "frames", "stickers", "text"}

\* ui.js:133-144: control identifier -> operation identifier, in call order
defaultControls ==
  << <<"filters", "filters">>,
     <<"rotation", "crop-rotation">>,
     <<"flip", "flip">>,
     <<"brightness", "brightness">>,
     <<"contrast", "contrast">>,
     <<"saturation", "saturation">>,
     <<"crop", "crop-rotation">>,
     <<"radial-blur", "radial-blur">>,
     <<"tilt-shift", "tilt-shift">>,
     <<"frames", "frames">>,
     <<"stickers", "stickers">>,
     <<"text", "text">> >>

\* ----------------------------------------------------------------- helpers
ControlIdentifiers == {defaultControls[k][1] : k \in DOMAIN defaultControls}

Range(s) == {s[i] : i \in DOMAIN s}

Identifiers == Range(preferredOperationOrder)

\* position of an identifier in the order list
Priority(id) == CHOOSE k \in DOMAIN preferredOperationOrder :
                  preferredOperationOrder[k] = id

Group(id) == IF id \in GeometryOperations THEN 1
             ELSE IF id \in ColorOperations THEN 2 ELSE 3

\* the lists of at most n distinct identifiers of ids
Selections(ids, n) ==
  UNION {{s \in [1..k -> ids] :
            \A a, b \in 1..k : a # b => s[a] # s[b]} : k \in 0..n}

\* kit.registeredOperations lacks the constructor of at most one of ids
Registries(ids) == {Identifiers} \cup {Identifiers \ {id} : id \in ids}

SessionIdentifiers == {preferredOperationOrder[k] : k \in 1..MaxIdentifiers}

\* the empty object {}
EmptyMap == [id \in {} |-> 0]

NoEvent == [name |-> "none", target |-> 0, renders |-> 0, threw |-> FALSE]

\* ------------------------------------------------------------------- state
VARIABLES
  selectedOperations,   \* options.operations, in the order the caller gave
  registeredOperations, \* kit.registeredOperations: identifiers with a constructor
  operationsStack,      \* kit.operationsStack: the operation instances
  operationsMap,        \* this._operationsMap: identifier -> stack position
  registeredControls,   \* keys of this._registeredControls
  lookedUp,             \* identifiers whose constructor has been looked up
  canvas,               \* this._canvas is set
  paused,               \* this._paused
  pausedUpdated,        \* an update event was suppressed since the last pause
  passesInFlight,       \* render passes started and not completed
  pending,              \* a render request is queued behind the pass in flight
  requests,             \* render requests the canvas has accepted, numbered 1..
  rendering,            \* the requests whose passes are in flight
  delivered,            \* the request whose output was delivered last, 0 if none
  runs,                 \* run() calls so far
  event,                \* the handler that ran last and what it did
  filter,               \* identifier of the filter that is rendered
  inputPixel,           \* the renderer's pixel before a filter render
  primitivesStack,      \* the PrimitivesStack the last render() call built
  lookupTables,         \* the lookup tables of its tone curves, in stack order
  outputs,              \* per completed render() call: primitives run, pixel out
  returned,             \* what the last render() call returned
  clickListeners,       \* click listeners on each overview list item
  overviewHidden,       \* the overview container has display "none"
  currentControl,       \* this._currentControl: a control, "null" or "undefined"
  entered,              \* controls entered and not left since
  backListeners         \* control -> its pending once("back") listeners

vars == << selectedOperations, registeredOperations, operationsStack,
           operationsMap, registeredControls, lookedUp, canvas, paused,
           pausedUpdated, passesInFlight, pending, requests, rendering,
           delivered, runs, event, filter, inputPixel, primitivesStack,
           lookupTables, outputs, returned, clickListeners, overviewHidden,
           currentControl, entered, backListeners >>

overviewVars == << overviewHidden, currentControl, entered, backListeners >>

filterVars == << filter, inputPixel, primitivesStack, lookupTables, outputs,
                 returned >>

\* ------------------------------------------------------------ _initOperations
\* base UI: is the identifier among the operations the caller enabled
isOperationSelected(sel, id) == \E k \in DOMAIN sel : sel[k] = id

\* ui.js:102, the list the loop iterates
IterationOrderAsEnabled(sel) == sel
IterationOrder(sel) == preferredOperationOrder

\* ui.js:103-105, the loop skips the identifier
SkipOperationNever(sel, id) == FALSE
SkipOperation(sel, id) == ~isOperationSelected(sel, id)

\* ui.js:108, 114: a new instance, flagged identity; changed records whether
\* its parameters have been changed (it has emitted an update event)
NewOperationNotIdentity(id) ==
  [identifier |-> id, isIdentity |-> FALSE, changed |-> FALSE]
NewOperation(id) ==
  [identifier |-> id, isIdentity |-> TRUE, changed |-> FALSE]

\* ui.js:102-125, the loop from position k of the iterated list; a selected
\* identifier without constructor makes `new Operation` throw a TypeError,
\* which leaves the loop with what was pushed so far
RECURSIVE InitOperationsLoop(_, _, _, _, _)
InitOperationsLoop(order, k, sel, reg, acc) ==
  IF k > Len(order) THEN acc
  ELSE LET id == order[k] IN
    IF SkipOperation(sel, id)
    THEN InitOperationsLoop(order, k + 1, sel, reg, acc)
    ELSE IF id \notin reg
    THEN [acc EXCEPT !.looked = @ \cup {id}, !.threw = TRUE]
    ELSE InitOperationsLoop(order, k + 1, sel, reg,
           [stack |-> Append(acc.stack, NewOperation(id)),
            map |-> (id :> (Len(acc.stack) + 1)) @@ acc.map,
            looked |-> acc.looked \cup {id},
            threw |-> FALSE])

\* ui.js:100-126
InitOperations(sel, reg, stack, map) ==
  InitOperationsLoop(IterationOrder(sel), 1, sel, reg,
    [stack |-> stack, map |-> map, looked |-> {}, threw |-> FALSE])

\* ui.js:132-145 with registerControl, ui.js:201-206
RegisterControls(sel) ==
  {defaultControls[k][1] : k \in
     {j \in DOMAIN defaultControls : isOperationSelected(sel, defaultControls[j][2])}}

\* ----------------------------------------------------------------- Init
\* no filter is being rendered
NoFilter ==
  /\ filter = "none"
  /\ inputPixel = << 0, 0, 0 >>
  /\ primitivesStack = << >>
  /\ lookupTables = << >>
  /\ outputs = << >>
  /\ returned = "nothing"

InitWith(sels) ==
  /\ selectedOperations \in sels
  /\ operationsStack = << >>
  /\ operationsMap = EmptyMap
  /\ registeredControls = {}
  /\ lookedUp = {}
  /\ canvas = FALSE
  /\ paused = FALSE
  /\ pausedUpdated = FALSE
  /\ passesInFlight = 0
  /\ pending = FALSE
  /\ requests = 0
  /\ rendering = {}
  /\ delivered = 0
  /\ runs = 0
  /\ event = NoEvent
  /\ clickListeners = 0
  /\ overviewHidden = FALSE
  /\ currentControl = "undefined"
  /\ entered = {}
  /\ backListeners = [c \in ControlIdentifiers |-> 0]

\* composition runs: any list of enabled operations, any one constructor
\* missing
InitRun ==
  /\ InitWith(Selections(Identifiers, MaxSelected))
  /\ registeredOperations \in Registries(Identifiers)
  /\ NoFilter

\* editing sessions: the constructor of an enabled operation may be missing
Init ==
  /\ InitWith(Selections(SessionIdentifiers, MaxActive))
  /\ registeredOperations \in Registries(Range(selectedOperations))
  /\ NoFilter

\* ------------------------------------------------------------------ run()
\* ui.js:45-63
RunUpTo(maxRuns) ==
  /\ runs < maxRuns
  /\ LET r == InitOperations(selectedOperations, registeredOperations,
                             operationsStack, EmptyMap)
     IN /\ operationsStack' = r.stack
        /\ operationsMap' = r.map
        /\ lookedUp' = lookedUp \cup r.looked
        /\ canvas' = IF r.threw THEN canvas ELSE TRUE
        /\ clickListeners' = IF r.threw THEN clickListeners ELSE clickListeners + 1
        /\ event' = [NoEvent EXCEPT !.name = "run", !.threw = r.threw]
  /\ registeredControls' = registeredControls \cup RegisterControls(selectedOperations)
  /\ runs' = runs + 1
  /\ UNCHANGED << selectedOperations, registeredOperations, paused,
                  pausedUpdated, passesInFlight, pending, requests, rendering,
                  delivered >>
  /\ UNCHANGED filterVars
  /\ UNCHANGED overviewVars

Run == RunUpTo(MaxRuns)

SessionRun == RunUpTo(MaxSessionRuns)

\* ---------------------------------------------------------- rendering
\* Canvas.render as the session's render scheduler: a request that arrives
\* while a pass is in flight queues behind it and coalesces; without a
\* canvas (run() did not get to _initCanvas) the call throws
CanvasRenderAlwaysStarts(hasCanvas, inFlight, queued) ==
  IF ~hasCanvas THEN [inFlight |-> inFlight, queued |-> queued, threw |-> TRUE]
  ELSE [inFlight |-> inFlight + 1, queued |-> queued, threw |-> FALSE]
CanvasRender(hasCanvas, inFlight, queued) ==
  IF ~hasCanvas THEN [inFlight |-> inFlight, queued |-> queued, threw |-> TRUE]
  ELSE IF inFlight > 0 THEN [inFlight |-> inFlight, queued |-> TRUE, threw |-> FALSE]
  ELSE [inFlight |-> 1, queued |-> FALSE, threw |-> FALSE]

\* ui.js:223-225, render() called n times (0 or 1) by a handler: the
\* scheduler's state afterwards
Render(n, hasCanvas, inFlight, queued) ==
  IF n = 0 THEN [inFlight |-> inFlight, queued |-> queued, threw |-> FALSE]
  ELSE CanvasRender(hasCanvas, inFlight, queued)

\* the numbered requests after a render() call with outcome c: an accepted
\* request gets the next number; a pass that starts serves that request
Accepted(c) == IF c.threw THEN requests ELSE requests + 1
Started(c) == IF c.inFlight > passesInFlight
              THEN rendering \cup {requests + 1} ELSE rendering

\* the pass of request r completes and delivers its output; a queued request
\* then starts the next pass, on the latest request
RenderComplete ==
  /\ \E r \in rendering :
       /\ delivered' = r
       /\ rendering' = (rendering \ {r}) \cup (IF pending THEN {requests} ELSE {})
  /\ passesInFlight' = IF pending THEN passesInFlight ELSE passesInFlight - 1
  /\ pending' = FALSE
  /\ event' = [NoEvent EXCEPT !.name = "render-complete"]
  /\ UNCHANGED << selectedOperations, registeredOperations, operationsStack,
                  operationsMap, registeredControls, lookedUp, canvas, paused,
                  pausedUpdated, requests, runs >>
  /\ UNCHANGED << filterVars, clickListeners, overviewVars >>

\* ------------------------------------------------------- update handler
\* ui.js:116-121, the listener of one instance: the instance afterwards and
\* the number of render() calls it made
OnUpdateIgnoringPause(isPaused, instance) ==
  [instance |-> [instance EXCEPT !.isIdentity = FALSE], renders |-> 1]
OnUpdate(isPaused, instance) ==
  IF isPaused THEN [instance |-> instance, renders |-> 0]
  ELSE [instance |-> [instance EXCEPT !.isIdentity = FALSE], renders |-> 1]

\* ui.js:108, 116-121: the operationInstance the listener of the instance at
\* stack position i closes over is that instance (a `let` of its iteration)
HandlerTargetLast(i, stack) == Len(stack)
HandlerTarget(i, stack) == i

\* the operation at stack position i changes a parameter and emits "update":
\* its listener runs; changed and pausedUpdated record that the event occurred
Update(i) ==
  /\ i \in DOMAIN operationsStack
  /\ paused \/ requests < MaxRequests
  /\ LET emitted == [operationsStack EXCEPT ![i].changed = TRUE]
         j == HandlerTarget(i, operationsStack)
         r == OnUpdate(paused, emitted[j])
         c == Render(r.renders, canvas, passesInFlight, pending)
     IN /\ operationsStack' = [emitted EXCEPT ![j] = r.instance]
        /\ passesInFlight' = c.inFlight
        /\ pending' = c.queued
        /\ requests' = IF r.renders = 0 THEN requests ELSE Accepted(c)
        /\ rendering' = IF r.renders = 0 THEN rendering ELSE Started(c)
        /\ event' = [name |-> "update", target |-> i, renders |-> r.renders,
                     threw |-> c.threw]
  /\ pausedUpdated' = (paused \/ pausedUpdated)
  /\ UNCHANGED << selectedOperations, registeredOperations, operationsMap,
                  registeredControls, lookedUp, canvas, paused, delivered, runs >>
  /\ UNCHANGED << filterVars, clickListeners, overviewVars >>

\* ------------------------------------------------------ pause / unpause
\* the session's paused flag is set
Pause ==
  /\ ~paused
  /\ paused' = TRUE
  /\ pausedUpdated' = FALSE
  /\ event' = [NoEvent EXCEPT !.name = "pause"]
  /\ UNCHANGED << selectedOperations, registeredOperations, operationsStack,
                  operationsMap, registeredControls, lookedUp, canvas,
                  passesInFlight, pending, requests, rendering, delivered,
                  runs >>
  /\ UNCHANGED << filterVars, clickListeners, overviewVars >>

\* the flag is cleared; one consolidated render if an update was suppressed
Unpause ==
  /\ paused
  /\ ~pausedUpdated \/ requests < MaxRequests
  /\ paused' = FALSE
  /\ pausedUpdated' = FALSE
  /\ LET n == IF pausedUpdated THEN 1 ELSE 0
         c == Render(n, canvas, passesInFlight, pending)
     IN /\ passesInFlight' = c.inFlight
        /\ pending' = c.queued
        /\ requests' = IF n = 0 THEN requests ELSE Accepted(c)
        /\ rendering' = IF n = 0 THEN rendering ELSE Started(c)
        /\ event' = [name |-> "unpause", target |-> 0, renders |-> n,
                     threw |-> c.threw]
  /\ UNCHANGED << selectedOperations, registeredOperations, operationsStack,
                  operationsMap, registeredControls, lookedUp, canvas, delivered,
                  runs >>
  /\ UNCHANGED << filterVars, clickListeners, overviewVars >>

Next ==
  \/ SessionRun
  \/ \E i \in DOMAIN operationsStack : Update(i)
  \/ Pause
  \/ Unpause
  \/ RenderComplete

Spec == Init /\ [][Next]_vars

NextRun == Run

SpecRun == InitRun /\ [][NextRun]_vars

\* =============================================================== filters
\* part_000:39-56, OrchidFilter's RGB tone curve
OrchidRed == << <<0, 0>>, <<115, 130>>, <<195, 215>>, <<255, 255>> >>
OrchidGreen == << <<0, 0>>, <<148, 153>>, <<172, 215>>, <<255, 255>> >>
OrchidBlue == << <<0, 46>>, <<58, 75>>, <<178, 205>>, <<255, 255>> >>
\* part_000:62-67, OrchidFilter's second tone curve
OrchidCurve == << <<0, 0>>, <<117, 151>>, <<189, 217>>, <<255, 255>> >>
\* part_000:72, desaturation 0.65, in hundredths
OrchidDesaturation == 65

\* part_000:118-140, FixieFilter's RGB tone curve
FixieRedTypo ==
  << <<0, 0>>, <<44, 28>>, <<63, 48>>, <<128, 123>>, <<235, 248>>, <<255, 255>> >>
FixieRed ==
  << <<0, 0>>, <<44, 28>>, <<63, 48>>, <<128, 132>>, <<235, 248>>, <<255, 255>> >>
FixieGreen ==
  << <<0, 0>>, <<20, 10>>, <<60, 45>>, <<190, 209>>, <<211, 231>>, <<255, 255>> >>
FixieBlue ==
  << <<0, 31>>, <<41, 62>>, <<150, 142>>, <<234, 212>>, <<255, 224>> >>

\* the primitives, as constructed from their options
RgbToneCurve(r, g, b) ==
  [kind |-> "ToneCurve",
   options |-> [rgbControlPoints |-> [red |-> r, green |-> g, blue |-> b]]]
ToneCurve(points) ==
  [kind |-> "ToneCurve", options |-> [controlPoints |-> points]]
Desaturation(d) ==
  [kind |-> "Desaturation", options |-> [desaturation |-> d]]

\* part_000:37-73, the stack.add calls of OrchidFilter.render, in order
OrchidPrimitivesCurvesSwapped ==
  << ToneCurve(OrchidCurve),
     RgbToneCurve(OrchidRed, OrchidGreen, OrchidBlue),
     Desaturation(OrchidDesaturation) >>
OrchidPrimitives ==
  << RgbToneCurve(OrchidRed, OrchidGreen, OrchidBlue),
     ToneCurve(OrchidCurve),
     Desaturation(OrchidDesaturation) >>

\* part_000:116-142, the stack.add call of FixieFilter.render
FixiePrimitives == << RgbToneCurve(FixieRed, FixieGreen, FixieBlue) >>

FilterIdentifiers == {"orchid", "fixie"}

Primitives(f) == IF f = "orchid" THEN OrchidPrimitives ELSE FixiePrimitives

\* part_000:34 and 113, `new Filter.PrimitivesStack()`: empty, whatever the
\* previous call built
NewPrimitivesStackReused(previous) == previous
NewPrimitivesStack(previous) == << >>

\* part_000:76 and 145: the function ends without a return statement
RenderResult == "undefined"

\* ------------------------------------------------------------ tone curve
Levels == 0..255

Clamp(v) == IF v < 0 THEN 0 ELSE IF v > 255 THEN 255 ELSE v

\* the value at input level x of the curve through the control points: a
\* Catmull-Rom segment between the neighbouring points, in fixed-point
\* arithmetic, clamped to 0..255; flat outside the end points
Lookup(points, x) ==
  LET n == Len(points) IN
  IF x <= points[1][1] THEN points[1][2]
  ELSE IF x >= points[n][1] THEN points[n][2]
  ELSE
    LET k == CHOOSE j \in 1..(n - 1) : points[j][1] <= x /\ x < points[j + 1][1]
        p0 == points[IF k = 1 THEN 1 ELSE k - 1][2]
        p1 == points[k][2]
        p2 == points[k + 1][2]
        p3 == points[IF k + 2 > n THEN n ELSE k + 2][2]
        d == points[k + 1][1] - points[k][1]
        t == x - points[k][1]
        a1 == p2 - p0
        a2 == 2 * p0 - 5 * p1 + 4 * p2 - p3
        a3 == 3 * p1 - p0 - 3 * p2 + p3
        h3 == (a3 * t) \div d
        h2 == ((a2 + h3) * t) \div d
        h1 == ((a1 + h2) * t) \div d
    IN Clamp(p1 + (h1 \div 2))

\* the 256-entry lookup table of one channel
LookupTable(points) == [x \in Levels |-> Lookup(points, x)]

\* the per-channel tables of a tone curve: one curve serves all three channels
ToneCurveTables(options) ==
  IF "rgbControlPoints" \in DOMAIN options
  THEN [red |-> LookupTable(options.rgbControlPoints.red),
        green |-> LookupTable(options.rgbControlPoints.green),
        blue |-> LookupTable(options.rgbControlPoints.blue)]
  ELSE [red |-> LookupTable(options.controlPoints),
        green |-> LookupTable(options.controlPoints),
        blue |-> LookupTable(options.controlPoints)]

\* the control points a tone curve declares for each channel
ToneCurvePoints(options) ==
  IF "rgbControlPoints" \in DOMAIN options
  THEN options.rgbControlPoints
  ELSE [red |-> options.controlPoints,
        green |-> options.controlPoints,
        blue |-> options.controlPoints]

\* the tone curves of a stack, in order
ToneCurvesOf(stack) == SelectSeq(stack, LAMBDA p : p.kind = "ToneCurve")

\* ---------------------------------------------------------- desaturation
\* lerp of the pixel towards its luma by d hundredths
Desaturate(d, pixel) ==
  LET luma == (2125 * pixel[1] + 7154 * pixel[2] + 721 * pixel[3]) \div 10000
  IN [c \in 1..3 |-> (pixel[c] * (100 - d) + luma * d) \div 100]

\* ------------------------------------------------------- PrimitivesStack
\* one primitive on the renderer's current pixel
ApplyPrimitive(p, pixel) ==
  IF p.kind = "ToneCurve"
  THEN LET t == ToneCurveTables(p.options)
       IN << t.red[pixel[1]], t.green[pixel[2]], t.blue[pixel[3]] >>
  ELSE Desaturate(p.options.desaturation, pixel)

\* PrimitivesStack.render: every primitive from position k on, in insertion
\* order, each on the output of the one before
RECURSIVE StackRender(_, _, _)
StackRender(stack, k, acc) ==
  IF k > Len(stack) THEN acc
  ELSE StackRender(stack, k + 1,
         [executed |-> Append(acc.executed, stack[k]),
          pixel |-> ApplyPrimitive(stack[k], acc.pixel)])

\* a filter instance is rendered on a grey pixel of any level
InitFilter ==
  /\ InitWith({<< >>})
  /\ registeredOperations = Identifiers
  /\ filter \in FilterIdentifiers
  /\ \E v \in Levels : inputPixel = << v, v, v >>
  /\ primitivesStack = << >>
  /\ lookupTables = << >>
  /\ outputs = << >>
  /\ returned = "nothing"

\* part_000:33-76 and 112-145, OrchidFilter/FixieFilter.prototype.render
FilterRender ==
  /\ filter \in FilterIdentifiers
  /\ Len(outputs) < MaxFilterRenders
  /\ LET stack == NewPrimitivesStack(primitivesStack) \o Primitives(filter)
         out == StackRender(stack, 1, [executed |-> << >>, pixel |-> inputPixel])
         curves == ToneCurvesOf(stack)
     IN /\ primitivesStack' = stack
        /\ lookupTables' = [k \in DOMAIN curves |-> ToneCurveTables(curves[k].options)]
        /\ outputs' = Append(outputs, out)
  /\ returned' = RenderResult
  /\ UNCHANGED << selectedOperations, registeredOperations, operationsStack,
                  operationsMap, registeredControls, lookedUp, canvas, paused,
                  pausedUpdated, passesInFlight, pending, requests, rendering,
                  delivered, runs, event, filter, inputPixel, clickListeners >>
  /\ UNCHANGED overviewVars

NextFilter == FilterRender

SpecFilter == InitFilter /\ [][NextFilter]_vars

\* ============================================================== overview
\* ui.js:170-180, one call of _onOverviewButtonClick on the overview state o;
\* an identifier without registered control makes `.enter()` on undefined
\* throw a TypeError after the overview was hidden
OnOverviewButtonClick(o, identifier, controls) ==
  LET left == IF o.current \in ControlIdentifiers
              THEN o.entered \ {o.current} ELSE o.entered
  IN IF identifier \notin controls
     THEN [hidden |-> TRUE, current |-> "undefined", entered |-> left,
           listeners |-> o.listeners, threw |-> TRUE]
     ELSE [hidden |-> TRUE, current |-> identifier,
           entered |-> left \cup {identifier},
           listeners |-> [o.listeners EXCEPT ![identifier] = @ + 1],
           threw |-> o.threw]

\* ui.js:186-193, one call of _switchToOverview
SwitchToOverview(o) ==
  [o EXCEPT !.hidden = FALSE,
            !.current = "null",
            !.entered = IF o.current \in ControlIdentifiers
                        THEN o.entered \ {o.current} ELSE o.entered]

\* ui.js:160-162, every click listener of the list item calls the handler
RECURSIVE ClickListenersRun(_, _, _, _)
ClickListenersRun(n, o, identifier, controls) ==
  IF n = 0 THEN o
  ELSE ClickListenersRun(n - 1, OnOverviewButtonClick(o, identifier, controls),
                         identifier, controls)

\* ui.js:179, every pending once("back") listener calls _switchToOverview
RECURSIVE BackListenersRun(_, _)
BackListenersRun(n, o) ==
  IF n = 0 THEN o ELSE BackListenersRun(n - 1, SwitchToOverview(o))

Overview ==
  [hidden |-> overviewHidden, current |-> currentControl, entered |-> entered,
   listeners |-> backListeners, threw |-> FALSE]

\* the overview list item of a control identifier is clicked
OverviewButtonClick(identifier) ==
  /\ clickListeners > 0
  /\ backListeners[identifier] + clickListeners <= MaxBackListeners
  /\ LET o == ClickListenersRun(clickListeners, Overview, identifier,
                                registeredControls)
     IN /\ overviewHidden' = o.hidden
        /\ currentControl' = o.current
        /\ entered' = o.entered
        /\ backListeners' = o.listeners
        /\ event' = [NoEvent EXCEPT !.name = "click", !.threw = o.threw]
  /\ UNCHANGED << selectedOperations, registeredOperations, operationsStack,
                  operationsMap, registeredControls, lookedUp, canvas, paused,
                  pausedUpdated, passesInFlight, pending, requests, rendering,
                  delivered, runs, clickListeners >>
  /\ UNCHANGED filterVars

\* the entered control c emits "back": its once listeners run and are removed
ControlBack(c) ==
  /\ c \in entered
  /\ LET o == BackListenersRun(backListeners[c], Overview)
     IN /\ overviewHidden' = o.hidden
        /\ currentControl' = o.current
        /\ entered' = o.entered
  /\ backListeners' = [backListeners EXCEPT ![c] = 0]
  /\ event' = [NoEvent EXCEPT !.name = "back"]
  /\ UNCHANGED << selectedOperations, registeredOperations, operationsStack,
                  operationsMap, registeredControls, lookedUp, canvas, paused,
                  pausedUpdated, passesInFlight, pending, requests, rendering,
                  delivered, runs, clickListeners >>
  /\ UNCHANGED filterVars

NextOverview ==
  \/ SessionRun
  \/ \E identifier \in ControlIdentifiers : OverviewButtonClick(identifier)
  \/ \E c \in ControlIdentifiers : ControlBack(c)

SpecOverview == Init /\ [][NextOverview]_vars

\* ================================================================ claims
\* what a run() step appended to the operationsStack
Pushed(old, new) == SubSeq(new, Len(old) + 1, Len(new))

IdentifiersOf(stack) == [k \in DOMAIN stack |-> stack[k].identifier]

IsSelected(id) == isOperationSelected(selectedOperations, id)

\* C1: whatever list of operations is enabled and in whatever order, the
\* operations one _initOperations call pushes are in the order of the
\* priority list (so geometry, then color, then post-processing), and when
\* the call completes they are the priority list restricted to the enabled
\* operations.
C1_PriorityOrder ==
  [][event'.name = "run" /\ runs' = runs + 1 =>
       LET pushed == Pushed(operationsStack, operationsStack')
       IN /\ \A a, b \in DOMAIN pushed : a < b =>
               /\ Priority(pushed[a].identifier) < Priority(pushed[b].identifier)
               /\ Group(pushed[a].identifier) <= Group(pushed[b].identifier)
          /\ ~event'.threw =>
               IdentifiersOf(pushed) = SelectSeq(preferredOperationOrder, IsSelected)
    ]_vars

\* three operations, one of each group, enabled in the reverse of the
\* priority order and pushed by a completed run()
C1_Witness ==
  /\ event.name = "run" /\ ~event.threw /\ runs = 1
  /\ Len(selectedOperations) = 3 /\ Len(operationsStack) = 3
  /\ Priority(selectedOperations[1]) > Priority(selectedOperations[2])
  /\ Priority(selectedOperations[2]) > Priority(selectedOperations[3])
  /\ {Group(operationsStack[k].identifier) : k \in 1..3} = {1, 2, 3}

\* C2: at most one instance per identifier is in the operationsStack, in
\* every reachable state, also after run() was called more than once.
C2_OneInstancePerIdentifier ==
  \A a, b \in DOMAIN operationsStack :
    a # b => operationsStack[a].identifier # operationsStack[b].identifier

\* C3: only enabled identifiers have their constructor looked up, get an
\* instance on the operationsStack or an entry in operationsMap.
C3_OnlySelected ==
  /\ \A k \in DOMAIN operationsStack : IsSelected(operationsStack[k].identifier)
  /\ \A id \in DOMAIN operationsMap : IsSelected(id)
  /\ \A id \in lookedUp : IsSelected(id)

\* a completed run() that pushed instances while an identifier that is not
\* enabled has no constructor: looking it up would have thrown
C3_Witness ==
  /\ event.name = "run" /\ ~event.threw
  /\ operationsStack # << >>
  /\ \E id \in Identifiers : ~IsSelected(id) /\ id \notin registeredOperations

\* C4: a run() whose _initOperations meets an enabled identifier without
\* constructor reports the error and leaves the operationsStack as it was
\* before the call and operationsMap as the empty object it was on entry.
C4_NoPartialInsertion ==
  [][event'.name = "run" /\ runs' = runs + 1 /\ event'.threw =>
       /\ operationsStack' = operationsStack
       /\ operationsMap' = EmptyMap
    ]_vars

\* C5: after the update event of an operation has been handled, in whatever
\* session state it occurred, that operation is flagged isIdentity = false.
C5_UpdateClearsIdentity ==
  event.name = "update" => ~operationsStack[event.target].isIdentity

\* C6: an operation flagged isIdentity = true has had no parameter change
\* since it was constructed.
C6_IdentityMeansUnchanged ==
  \A k \in DOMAIN operationsStack :
    operationsStack[k].isIdentity => ~operationsStack[k].changed

\* C7: an update event handled while the session is paused makes no render
\* request, one handled while it is not paused makes exactly one.
C7_RenderRequests ==
  event.name = "update" => event.renders = (IF paused THEN 0 ELSE 1)

\* an update suppressed by the pause, after an earlier update of another
\* operation went through to a render
C7_Witness ==
  /\ event.name = "update" /\ paused /\ event.renders = 0
  /\ canvas
  /\ \E k \in DOMAIN operationsStack :
       k # event.target /\ ~operationsStack[k].isIdentity

\* C8: unpausing makes exactly one render request if an update occurred while
\* paused and none otherwise, and that render reflects every update: no
\* operation whose parameters changed is still flagged identity (skipped).
C8_UnpauseRendersAllUpdates ==
  [][event'.name = "unpause" /\ paused /\ ~paused' =>
       /\ event'.renders = (IF pausedUpdated THEN 1 ELSE 0)
       /\ \A k \in DOMAIN operationsStack' :
            operationsStack'[k].changed => ~operationsStack'[k].isIdentity
    ]_vars

\* C9: an instance is flagged isIdentity = true when _initOperations pushes
\* it, and the flag is cleared by nothing but an update event of that same
\* instance.
C9_IdentityUntilFirstUpdate ==
  [][\A k \in DOMAIN operationsStack' :
       /\ k \notin DOMAIN operationsStack => operationsStack'[k].isIdentity
       /\ (/\ k \in DOMAIN operationsStack
           /\ operationsStack[k].isIdentity
           /\ ~operationsStack'[k].isIdentity)
          => event'.name = "update" /\ event'.target = k
    ]_vars

\* one operation just had its first update, another is still untouched and
\* flagged identity
C9_Witness ==
  /\ event.name = "update"
  /\ ~operationsStack[event.target].isIdentity
  /\ \E k \in DOMAIN operationsStack :
       /\ k # event.target
       /\ operationsStack[k].isIdentity
       /\ ~operationsStack[k].changed

C12_PrimitivesInOrder ==
  \A k \in DOMAIN outputs :
    IF filter = "orchid"
    THEN /\ outputs[k].executed =
              << RgbToneCurve(OrchidRed, OrchidGreen, OrchidBlue),
                 ToneCurve(OrchidCurve),
                 Desaturation(65) >>
         /\ outputs[k].pixel =
              Desaturate(65,
                ApplyPrimitive(ToneCurve(OrchidCurve),
                  ApplyPrimitive(RgbToneCurve(OrchidRed, OrchidGreen, OrchidBlue),
                                 inputPixel)))
    ELSE /\ outputs[k].executed = << RgbToneCurve(FixieRed, FixieGreen, FixieBlue) >>
         /\ outputs[k].pixel =
              ApplyPrimitive(RgbToneCurve(FixieRed, FixieGreen, FixieBlue), inputPixel)

\* orchid was rendered on a mid-grey pixel
C12_Witness ==
  /\ filter = "orchid"
  /\ inputPixel = << 128, 128, 128 >>
  /\ Len(outputs) = 1
  /\ Len(outputs[1].executed) = 3

\* C13: two render calls of one filter from the same renderer input run the
\* same primitives with the same parameters and give the same output; each
\* call's stack holds only the primitives that call added.
C13_RenderDeterministic ==
  /\ \A a, b \in DOMAIN outputs : outputs[a] = outputs[b]
  /\ outputs # << >> => Len(primitivesStack) = Len(Primitives(filter))

\* the same filter instance was rendered twice
C13_Witness ==
  /\ filter \in FilterIdentifiers
  /\ Len(outputs) = 2
  /\ inputPixel[1] > 0

\* C14: render returns a Promise, as its doc comment declares.
C14_ReturnsPromise ==
  outputs # << >> => returned = "Promise"

\* C15: the lookup table of every channel of every tone curve of the filter
\* maps each control point's input level to its declared output level; the
\* fixie red channel maps 128 to 132.
C15_ControlPointPassThrough ==
  /\ \A k \in DOMAIN lookupTables :
       LET points == ToneCurvePoints(ToneCurvesOf(primitivesStack)[k].options)
       IN /\ \A j \in DOMAIN points.red :
               lookupTables[k].red[points.red[j][1]] = points.red[j][2]
          /\ \A j \in DOMAIN points.green :
               lookupTables[k].green[points.green[j][1]] = points.green[j][2]
          /\ \A j \in DOMAIN points.blue :
               lookupTables[k].blue[points.blue[j][1]] = points.blue[j][2]
  /\ (filter = "fixie" /\ lookupTables # << >>) => lookupTables[1].red[128] = 132

\* fixie rendered a mid-grey pixel: red 132, per the control point (128, 132)
C15_Witness ==
  /\ filter = "fixie"
  /\ inputPixel = << 128, 128, 128 >>
  /\ Len(lookupTables) = 1
  /\ Len(outputs) >= 1
  /\ outputs[1].pixel[1] = 132

\* C16: an update event of one operation changes nothing of any other
\* operation on the operationsStack, nor the stack's contents and order, nor
\* operationsMap.
C16_UpdateFrame ==
  [][event'.name = "update" =>
       /\ Len(operationsStack') = Len(operationsStack)
       /\ operationsMap' = operationsMap
       /\ \A k \in DOMAIN operationsStack :
            IF k = event'.target
            THEN operationsStack'[k].identifier = operationsStack[k].identifier
            ELSE operationsStack'[k] = operationsStack[k]
    ]_vars

\* with two operations on the stack, the update of one cleared its flag and
\* the other is as constructed
C16_Witness ==
  /\ event.name = "update" /\ ~paused
  /\ Len(operationsStack) = 2
  /\ Cardinality(DOMAIN operationsMap) = 2
  /\ \A k \in DOMAIN operationsStack :
       operationsStack[k].isIdentity = (k # event.target)

\* C17: once run() was called, the keys of operationsMap are exactly the
\* enabled identifiers of the priority list and the operationsStack holds
\* exactly the instances operationsMap maps to, each once.
C17_MapAndStackAgree ==
  runs >= 1 =>
    /\ DOMAIN operationsMap = {id \in Identifiers : IsSelected(id)}
    /\ {operationsMap[id] : id \in DOMAIN operationsMap} = DOMAIN operationsStack
    /\ \A a, b \in DOMAIN operationsMap :
         operationsMap[a] = operationsMap[b] => a = b

\* C18: once run() was called, a control is registered exactly if its
\* operation is enabled, the operation of every registered control has an
\* instance in operationsMap, and 'rotation' and 'crop' are registered
\* together or not at all.
C18_ControlsMatchOperations ==
  runs >= 1 =>
    /\ \A k \in DOMAIN defaultControls :
         /\ defaultControls[k][1] \in registeredControls
              <=> IsSelected(defaultControls[k][2])
         /\ defaultControls[k][1] \in registeredControls
              => defaultControls[k][2] \in DOMAIN operationsMap
    /\ "rotation" \in registeredControls <=> "crop" \in registeredControls

\* C19: after any clicks and back events, also clicks on identifiers without
\* registered control, the overview is hidden exactly when there is a current
\* control, the current control is the only control entered and not left, and
\* a back event leaves no current control and the overview shown.
C19_OverviewConsistent ==
  /\ overviewHidden <=> currentControl \in ControlIdentifiers
  /\ entered = (IF currentControl \in ControlIdentifiers
                THEN {currentControl} ELSE {})
  /\ event.name = "back" => ~overviewHidden /\ currentControl = "null"

====
